---- MODULE Spec2Model ----
(***************************************************************************)
(* A model of elftools/elf/dynamic.py: the dynamic tag view (DynamicTag),  *)
(* the lazily loaded dynamic table (Dynamic, DynamicSection,               *)
(* DynamicSegment) and the address mapper ELFFile.map it calls.            *)
(*                                                                         *)
(* Python's None is the empty tuple and a present value v is <<v>>, so an  *)
(* optional value is always a tuple.  An operation's outcome is a record   *)
(* with exc = "" for a normal return and the exception's class otherwise.  *)
(***************************************************************************)
EXTENDS Integers, Sequences, FiniteSets, TLC

VARIABLES
    stream,           \* the file: byte offset -> the record decodable there
    kind,             \* "section" (DynamicSection) or "segment" (DynamicSegment)
    _offset,          \* Dynamic._offset
    _tagsize,         \* Dynamic._tagsize
    _entries,         \* Dynamic._entries: None or <<list>>
    _entry_type_map,  \* Dynamic._entry_type_map: None (unset) or <<[factory, d]>>
    _stringtable,     \* Dynamic._stringtable: None or <<string table>>
    segments,         \* what elffile.iter_segments() yields, in order
    reads,            \* history: the offsets handed to struct_parse, in order
    scans,            \* history: how many times the record scan was started
    mapCalls,         \* history: how many times elffile.map was called
    strtabReads,      \* history: how many times the DT_STRTAB group was read
    loadExc,          \* history: "unloaded", "" (load returned) or the exception
    call,             \* the last operation called: [op, arg]
    result,           \* what that operation returned or raised
    lookups,          \* history: offsets given to get_string by the last call
    dt,               \* the DynamicTag last constructed directly: None or <<view>>
    pc, tn, top, tres \* per thread: position, loop counter n, operation, outcome

vars == <<stream, kind, _offset, _tagsize, _entries, _entry_type_map,
          _stringtable, segments, reads, scans, mapCalls, strtabReads,
          loadExc, call, result, lookups, dt, pc, tn, top, tres>>

None == <<>>
Some(v) == <<v>>

(***************************************************************************)
(* Bounds of the model.                                                    *)
(***************************************************************************)
MaxRecords == 3          \* records in the file at the table's position
MaxConcRecords == 2      \* the same, in the two-thread specification
MaxAddr == 3             \* addresses and lengths tried on the address mapper
MaxRegions == 2          \* regions handed to the address mapper
MaxOffset == 2           \* values of the entries a view is built over

TableTags == {"DT_NULL", "DT_NEEDED", "DT_STRTAB", "DT_STRSZ"}

\* Elf_Dyn as the decoder yields it: d_ptr and d_val read the same storage.
Elf_Dyn(tag, val) == [d_tag |-> tag, d_val |-> val, d_ptr |-> val]

\* The records a table is made of in the model.
TableRecords ==
    {Elf_Dyn("DT_NULL", 0), Elf_Dyn("DT_NEEDED", 1)}
        \cup {Elf_Dyn(t, v) : t \in {"DT_STRTAB", "DT_STRSZ"}, v \in {1, 2}}

RECURSIVE SeqsUpTo(_, _)
SeqsUpTo(S, n) ==
    IF n = 0 THEN {<<>>}
    ELSE LET shorter == SeqsUpTo(S, n - 1)
         IN  shorter \cup {Append(s, x) : s \in {t \in shorter : Len(t) = n - 1}, x \in S}

\* Elf_Dyn.sizeof() and the table's position, for the two ELF classes.
Layouts == {[position |-> 0, tagsize |-> 8], [position |-> 4, tagsize |-> 16]}

\* The file holding the records recs back to back from position on.
FileOf(recs, position, tagsize) ==
    [o \in {position + (i - 1) * tagsize : i \in 1..Len(recs)} |->
        recs[((o - position) \div tagsize) + 1]]

(***************************************************************************)
(* External collaborators, at the interface dynamic.py uses.               *)
(***************************************************************************)
\* struct_parse(Elf_Dyn, stream, stream_pos=offset)
struct_parse(strm, offset) ==
    IF offset \in DOMAIN strm
    THEN [exc |-> "", entry |-> strm[offset]]
    ELSE [exc |-> "ELFParseError"]

\* StringTable(stream, position, size)
StringTable(position, size) ==
    [origin |-> "bootstrap", _position |-> position, _size |-> size]

\* The string table section elffile.get_section(header['sh_link']) returns.
LinkedStringTable == [origin |-> "sh_link", _position |-> 0, _size |-> Some(1)]

\* stringtable.get_string(offset): the bytes at that offset of the table.
get_string(stringtable, offset) ==
    [bytesAt |-> stringtable._position + offset]

\* Contains with the end of the region excluded for every length.
ContainsStrict(seg, address, length) ==
    /\ seg.p_vaddr <= address
    /\ address + length < seg.p_vaddr + seg.p_filesz

\* The containment test of ELFFile.map for one region.
Contains(seg, address, length) ==
    /\ seg.p_vaddr <= address
    /\ IF length = 0
       THEN address < seg.p_vaddr + seg.p_filesz
       ELSE address + length <= seg.p_vaddr + seg.p_filesz

RECURSIVE MapFrom(_, _, _, _)
MapFrom(segs, i, address, length) ==
    IF i > Len(segs) THEN [exc |-> "LookupError"]
    ELSE IF Contains(segs[i], address, length)
         THEN [exc |-> "", value |-> segs[i].p_offset + (address - segs[i].p_vaddr)]
         ELSE MapFrom(segs, i + 1, address, length)

\* elffile.map(address, length); an omitted or None length is length 0.
Map(segs, address, optLength) ==
    MapFrom(segs, 1, address, IF optLength = None THEN 0 ELSE optLength[1])

(***************************************************************************)
(* DynamicTag                                                              *)
(***************************************************************************)
_HANDLED_TAGS ==
    {"DT_NEEDED", "DT_RPATH", "DT_RUNPATH", "DT_SONAME", "DT_SUNW_FILTER"}

LowerChar(c) ==
    CASE c = "A" -> "a" [] c = "B" -> "b" [] c = "C" -> "c" [] c = "D" -> "d"
      [] c = "E" -> "e" [] c = "F" -> "f" [] c = "G" -> "g" [] c = "H" -> "h"
      [] c = "I" -> "i" [] c = "J" -> "j" [] c = "K" -> "k" [] c = "L" -> "l"
      [] c = "M" -> "m" [] c = "N" -> "n" [] c = "O" -> "o" [] c = "P" -> "p"
      [] c = "Q" -> "q" [] c = "R" -> "r" [] c = "S" -> "s" [] c = "T" -> "t"
      [] c = "U" -> "u" [] c = "V" -> "v" [] c = "W" -> "w" [] c = "X" -> "x"
      [] c = "Y" -> "y" [] c = "Z" -> "z" [] OTHER -> c

RECURSIVE Lower(_)
Lower(s) ==
    IF Len(s) = 0 THEN ""
    ELSE LowerChar(SubSeq(s, 1, 1)) \o Lower(SubSeq(s, 2, Len(s)))

\* AttrName without the lower-casing.
AttrNameUpper(d_tag) == SubSeq(d_tag, 4, Len(d_tag))

\* entry.d_tag[3:].lower()
AttrName(d_tag) == Lower(SubSeq(d_tag, 4, Len(d_tag)))

\* DynamicTag.__init__ asking for the string table only when it reads it.
DynamicTagLateCheck(entry, stringtable) ==
    IF "d_tag" \notin DOMAIN entry
    THEN [exc |-> "AttributeError", inspected |-> TRUE, lookups |-> <<>>]
    ELSE IF entry.d_tag \in _HANDLED_TAGS
    THEN IF stringtable = None
         THEN [exc |-> "ELFError", inspected |-> TRUE, lookups |-> <<>>]
         ELSE [exc |-> "", inspected |-> TRUE,
               lookups |-> <<entry.d_val>>,
               view |-> [entry |-> entry,
                         attrs |-> AttrName(entry.d_tag) :>
                                       get_string(stringtable[1], entry.d_val)]]
    ELSE [exc |-> "", inspected |-> TRUE, lookups |-> <<>>,
          view |-> [entry |-> entry, attrs |-> <<>>]]

\* DynamicTag.__init__(entry, stringtable).  An entry that is not a decoded
\* record (the test passes '') has no d_tag field.
DynamicTag(entry, stringtable) ==
    IF stringtable = None
    THEN [exc |-> "ELFError", inspected |-> FALSE, lookups |-> <<>>]
    ELSE IF "d_tag" \notin DOMAIN entry
    THEN [exc |-> "AttributeError", inspected |-> TRUE, lookups |-> <<>>]
    ELSE IF entry.d_tag \in _HANDLED_TAGS
    THEN [exc |-> "", inspected |-> TRUE,
          lookups |-> <<entry.d_val>>,
          view |-> [entry |-> entry,
                    attrs |-> AttrName(entry.d_tag) :>
                                  get_string(stringtable[1], entry.d_val)]]
    ELSE [exc |-> "", inspected |-> TRUE, lookups |-> <<>>,
          view |-> [entry |-> entry, attrs |-> <<>>]]

\* DynamicTag.__getitem__(name)
GetItem(view, name) == view.entry[name]

(***************************************************************************)
(* Dynamic: the lazy load                                                  *)
(***************************************************************************)
\* GroupAppend putting the entry at the front of its group.
GroupPrepend(d, tag, entry) ==
    IF tag \in DOMAIN d
    THEN [d EXCEPT ![tag] = <<entry>> \o @]
    ELSE d @@ (tag :> <<entry>>)

\* self._entry_type_map[tag].append(entry) on a defaultdict(list)
GroupAppend(d, tag, entry) ==
    IF tag \in DOMAIN d
    THEN [d EXCEPT ![tag] = Append(@, entry)]
    ELSE d @@ (tag :> <<entry>>)

\* self._entry_type_map.get(type, ())
GroupGet(d, type) == IF type \in DOMAIN d THEN d[type] ELSE <<>>

\* ScanLoop testing for the sentinel before it appends the record.
RECURSIVE ScanLoopBreakFirst(_, _, _, _)
ScanLoopBreakFirst(n, entries, d, rds) ==
    LET offset == _offset + n * _tagsize
        parsed == struct_parse(stream, offset)
    IN  IF parsed.exc # ""
        THEN [exc |-> parsed.exc, entries |-> entries, d |-> d,
              reads |-> Append(rds, offset)]
        ELSE IF parsed.entry.d_tag = "DT_NULL"
        THEN [exc |-> "", entries |-> entries, d |-> d,
              reads |-> Append(rds, offset)]
        ELSE ScanLoopBreakFirst(n + 1, Append(entries, parsed.entry),
                                GroupAppend(d, parsed.entry.d_tag, parsed.entry),
                                Append(rds, offset))

\* ScanLoop advancing by the record width of a 32-bit file whatever the class.
RECURSIVE ScanLoopFixedWidth(_, _, _, _)
ScanLoopFixedWidth(n, entries, d, rds) ==
    LET offset == _offset + n * 8
        parsed == struct_parse(stream, offset)
    IN  IF parsed.exc # ""
        THEN [exc |-> parsed.exc, entries |-> entries, d |-> d,
              reads |-> Append(rds, offset)]
        ELSE LET entries2 == Append(entries, parsed.entry)
                 d2 == GroupAppend(d, parsed.entry.d_tag, parsed.entry)
             IN  IF parsed.entry.d_tag = "DT_NULL"
                 THEN [exc |-> "", entries |-> entries2, d |-> d2,
                       reads |-> Append(rds, offset)]
                 ELSE ScanLoopFixedWidth(n + 1, entries2, d2, Append(rds, offset))

\* The for loop of _load_entries from iteration n on.
RECURSIVE ScanLoop(_, _, _, _)
ScanLoop(n, entries, d, rds) ==
    LET offset == _offset + n * _tagsize
        parsed == struct_parse(stream, offset)
    IN  IF parsed.exc # ""
        THEN [exc |-> parsed.exc, entries |-> entries, d |-> d,
              reads |-> Append(rds, offset)]
        ELSE LET entry == parsed.entry
                 entries2 == Append(entries, entry)
                 d2 == GroupAppend(d, entry.d_tag, entry)
             IN  IF entry.d_tag = "DT_NULL"
                 THEN [exc |-> "", entries |-> entries2, d |-> d2,
                       reads |-> Append(rds, offset)]
                 ELSE ScanLoop(n + 1, entries2, d2, Append(rds, offset))

\* Bootstrap mapping the address without the size of the table.
BootstrapNoSize(d) ==
    IF "DT_STRTAB" \notin DOMAIN d
    THEN [exc |-> "KeyError", st |-> None, mapped |-> 0]
    ELSE IF Len(d["DT_STRTAB"]) # 1
    THEN [exc |-> "ValueError", st |-> None, mapped |-> 0]
    ELSE LET strtab == d["DT_STRTAB"][1]
             group == GroupGet(d, "DT_STRSZ")
         IN  IF Len(group) > 1
             THEN [exc |-> "ValueError", st |-> None, mapped |-> 0]
             ELSE LET strsz == IF Len(group) = 0 THEN None
                               ELSE Some(group[1].d_val)
                      m == Map(segments, strtab.d_ptr, None)
                  IN  IF m.exc # ""
                      THEN [exc |-> m.exc, st |-> None, mapped |-> 1]
                      ELSE [exc |-> "", mapped |-> 1,
                            st |-> Some(StringTable(m.value, strsz))]

\* Lines 119-126 of _load_entries: the string table of a segment.
Bootstrap(d) ==
    IF "DT_STRTAB" \notin DOMAIN d
    THEN [exc |-> "KeyError", st |-> None, mapped |-> 0]
    ELSE IF Len(d["DT_STRTAB"]) # 1
    THEN [exc |-> "ValueError", st |-> None, mapped |-> 0]
    ELSE LET strtab == d["DT_STRTAB"][1]
             group == GroupGet(d, "DT_STRSZ")
         IN  IF Len(group) > 1
             THEN [exc |-> "ValueError", st |-> None, mapped |-> 0]
             ELSE LET strsz == IF Len(group) = 0 THEN None
                               ELSE Some(group[1].d_val)
                      m == Map(segments, strtab.d_ptr, strsz)
                  IN  IF m.exc # ""
                      THEN [exc |-> m.exc, st |-> None, mapped |-> 1]
                      ELSE [exc |-> "", mapped |-> 1,
                            st |-> Some(StringTable(m.value, strsz))]

\* _load_entries(), run to its return or to the exception it raises: the
\* fields and histories it leaves behind.
LoadEntries ==
    IF _entries # None
    THEN [exc |-> "", entries |-> _entries, map |-> _entry_type_map,
          st |-> _stringtable, reads |-> reads, scans |-> scans,
          mapCalls |-> mapCalls, strtabReads |-> strtabReads,
          loadExc |-> loadExc]
    ELSE LET sc == ScanLoop(0, <<>>, <<>>, <<>>)
         IN  IF sc.exc # ""
             THEN [exc |-> sc.exc, entries |-> Some(sc.entries),
                   map |-> Some([factory |-> TRUE, d |-> sc.d]),
                   st |-> _stringtable, reads |-> reads \o sc.reads,
                   scans |-> scans + 1, mapCalls |-> mapCalls,
                   strtabReads |-> strtabReads, loadExc |-> sc.exc]
             ELSE IF _stringtable # None
             THEN [exc |-> "", entries |-> Some(sc.entries),
                   map |-> Some([factory |-> FALSE, d |-> sc.d]),
                   st |-> _stringtable, reads |-> reads \o sc.reads,
                   scans |-> scans + 1, mapCalls |-> mapCalls,
                   strtabReads |-> strtabReads, loadExc |-> ""]
             ELSE LET b == Bootstrap(sc.d)
                  IN  [exc |-> b.exc, entries |-> Some(sc.entries),
                       map |-> Some([factory |-> FALSE, d |-> sc.d]),
                       st |-> b.st, reads |-> reads \o sc.reads,
                       scans |-> scans + 1, mapCalls |-> mapCalls + b.mapped,
                       strtabReads |-> strtabReads + 1, loadExc |-> b.exc]

\* The assignments of _load_entries to the instance, given its outcome L.
Loaded(L) ==
    /\ _entries' = L.entries
    /\ _entry_type_map' = L.map
    /\ _stringtable' = L.st
    /\ reads' = L.reads
    /\ scans' = L.scans
    /\ mapCalls' = L.mapCalls
    /\ strtabReads' = L.strtabReads
    /\ loadExc' = L.loadExc

\* DynamicTag(entry, stringtable) for each entry in turn; the first
\* exception ends the iteration.
RECURSIVE Views(_, _, _, _)
Views(entries, i, stringtable, acc) ==
    IF i > Len(entries) THEN acc
    ELSE LET t == DynamicTag(entries[i], stringtable)
         IN  IF t.exc # ""
             THEN [exc |-> t.exc, value |-> acc.value, lookups |-> acc.lookups]
             ELSE Views(entries, i + 1, stringtable,
                        [exc |-> "", value |-> Append(acc.value, t.view),
                         lookups |-> acc.lookups \o t.lookups])

\* self._entries[n], with Python's negative indices.
Index(list, n) ==
    IF 0 <= n /\ n < Len(list) THEN Some(list[n + 1])
    ELSE IF n < 0 /\ -n <= Len(list) THEN Some(list[Len(list) + n + 1])
    ELSE None

\* What num_tags() returns when _load_entries had outcome L.
NumTagsResult(L) ==
    IF L.exc # "" THEN [exc |-> L.exc]
    ELSE [exc |-> "", value |-> Len(L.entries[1])]

\* What get_tag(n) returns when _load_entries had outcome L.
GetTagResult(L, n) ==
    IF L.exc # "" THEN [exc |-> L.exc, lookups |-> <<>>]
    ELSE LET e == Index(L.entries[1], n)
         IN  IF e = None THEN [exc |-> "IndexError", lookups |-> <<>>]
             ELSE LET t == DynamicTag(e[1], L.st)
                  IN  IF t.exc # "" THEN [exc |-> t.exc, lookups |-> <<>>]
                      ELSE [exc |-> "", value |-> t.view, lookups |-> t.lookups]

\* What iterating iter_tags(type) to its end yields when _load_entries had
\* outcome L.
IterTagsResult(L, type) ==
    IF L.exc # "" THEN [exc |-> L.exc, value |-> <<>>, lookups |-> <<>>]
    ELSE LET entries == IF type = None THEN L.entries[1]
                        ELSE GroupGet(L.map[1].d, type[1])
         IN  Views(entries, 1, L.st,
                   [exc |-> "", value |-> <<>>, lookups |-> <<>>])

Fixed == UNCHANGED <<stream, kind, _offset, _tagsize, segments>>
NoThreads == UNCHANGED <<dt, pc, tn, top, tres>>

\* num_tags()
NumTags ==
    LET L == LoadEntries
    IN  /\ Loaded(L)
        /\ call' = [op |-> "num_tags", arg |-> None]
        /\ result' = NumTagsResult(L)
        /\ lookups' = <<>>
        /\ Fixed /\ NoThreads

\* get_tag(n)
GetTag(n) ==
    LET L == LoadEntries
        r == GetTagResult(L, n)
    IN  /\ Loaded(L)
        /\ call' = [op |-> "get_tag", arg |-> Some(n)]
        /\ result' = IF r.exc # "" THEN [exc |-> r.exc]
                     ELSE [exc |-> "", value |-> r.value]
        /\ lookups' = r.lookups
        /\ Fixed /\ NoThreads

\* iter_tags(type), iterated to its end
IterTags(type) ==
    LET L == LoadEntries
        r == IterTagsResult(L, type)
    IN  /\ Loaded(L)
        /\ call' = [op |-> "iter_tags", arg |-> type]
        /\ result' = IF r.exc # "" THEN [exc |-> r.exc]
                     ELSE [exc |-> "", value |-> r.value]
        /\ lookups' = r.lookups
        /\ Fixed /\ NoThreads

\* The loadable regions of the file the table is read from.
TableSegments ==
    << [p_vaddr |-> 2, p_filesz |-> 1, p_offset |-> 6],
       [p_vaddr |-> 0, p_filesz |-> 1, p_offset |-> 9] >>

Indices == (0 - 1)..MaxRecords
QueryTypes == {None} \cup {Some(t) : t \in TableTags \cup {"DT_SONAME"}}

NoCall == [op |-> "", arg |-> None]
NoResult == [exc |-> "none"]

\* Dynamic.__init__ as DynamicSection and DynamicSegment call it.
InitTable(recs, lay, k) ==
    /\ stream = FileOf(recs, lay.position, lay.tagsize)
    /\ kind = k
    /\ _offset = lay.position
    /\ _tagsize = lay.tagsize
    /\ _entries = None
    /\ _entry_type_map = None
    /\ _stringtable = IF k = "section" THEN Some(LinkedStringTable) ELSE None
    /\ segments = TableSegments
    /\ reads = <<>>
    /\ scans = 0
    /\ mapCalls = 0
    /\ strtabReads = 0
    /\ loadExc = "unloaded"
    /\ call = NoCall
    /\ result = NoResult
    /\ lookups = <<>>

Init ==
    /\ \E recs \in SeqsUpTo(TableRecords, MaxRecords),
          lay \in Layouts, k \in {"section", "segment"} :
            InitTable(recs, lay, k)
    /\ dt = None /\ pc = <<>> /\ tn = <<>> /\ top = <<>> /\ tres = <<>>

Next ==
    \/ NumTags
    \/ \E n \in Indices : GetTag(n)
    \/ \E type \in QueryTypes : IterTags(type)

Spec == Init /\ [][Next]_vars

(***************************************************************************)
(* Properties of the table used by one thread (Spec).                      *)
(***************************************************************************)
\* The records of the file from the table's position on, in file order.
FileRecords ==
    [i \in 1..Cardinality(DOMAIN stream) |-> stream[_offset + (i - 1) * _tagsize]]

IsNull(e) == e.d_tag = "DT_NULL"
HasSentinel == \E i \in DOMAIN FileRecords : IsNull(FileRecords[i])
FirstNull ==
    CHOOSE i \in DOMAIN FileRecords :
        IsNull(FileRecords[i]) /\ \A j \in 1..(i - 1) : ~IsNull(FileRecords[j])

WithTag(list, t) == SelectSeq(list, LAMBDA e : e.d_tag = t)
EntriesOf(views) == [i \in DOMAIN views |-> views[i].entry]
LoadedOk == loadExc = ""

\* C1: on a file whose first DT_NULL record is at index k, after the load
\* num_tags() is k+1, get_tag(num_tags()-1) has tag DT_NULL and no earlier
\* entry has; every loaded table is non-empty and ends with the sentinel.
C1_SentinelLast ==
    /\ LoadedOk => HasSentinel /\ _entries # None
    /\ (HasSentinel /\ _entries # None) =>
        /\ Len(_entries[1]) = FirstNull
        /\ IsNull(_entries[1][Len(_entries[1])])
        /\ \A i \in 1..(Len(_entries[1]) - 1) : ~IsNull(_entries[1][i])
        /\ call.op = "num_tags" =>
               /\ LoadedOk => result.exc = ""
               /\ result.exc = "" => result.value = FirstNull
        /\ call = [op |-> "get_tag", arg |-> Some(FirstNull - 1)] =>
               /\ LoadedOk => result.exc = ""
               /\ result.exc = "" => GetItem(result.value, "d_tag") = "DT_NULL"

C1_Witness ==
    /\ LoadedOk
    /\ call = [op |-> "get_tag", arg |-> Some(2)]
    /\ result.exc = ""
    /\ GetItem(result.value, "d_tag") = "DT_NULL"

\* C2: on a loaded table iter_tags(T) yields the entries of iter_tags(None)
\* whose tag is T, in file order, and nothing (without an error) for a tag
\* that does not occur; a query changes neither the entries nor the grouping.
C2_Filter ==
    LoadedOk =>
        /\ \A t \in TableTags \cup {"DT_SONAME"} :
               GroupGet(_entry_type_map[1].d, t) = WithTag(_entries[1], t)
        /\ call.op = "iter_tags" =>
               /\ result.exc = ""
               /\ EntriesOf(result.value) =
                      IF call.arg = None THEN _entries[1]
                      ELSE WithTag(_entries[1], call.arg[1])

C2_QueryKeeps ==
    LoadedOk => UNCHANGED <<_entries, _entry_type_map>>

C2_IterTagsIsFilter == []C2_Filter /\ [][C2_QueryKeeps]_vars

C2_Witness ==
    /\ LoadedOk
    /\ call = [op |-> "iter_tags", arg |-> Some("DT_STRTAB")]
    /\ result.exc = ""
    /\ Len(result.value) = 2
    /\ result.value[1] # result.value[2]

\* C3: the scan runs once, the loaded fields never change again, and a
\* call repeated with the same argument returns what it returned before.
C3_Step ==
    /\ scans' = 1
    /\ _entries # None => UNCHANGED <<_entries, _entry_type_map, _stringtable>>
    /\ (call.op # "" /\ call' = call) => result' = result

C3_Idempotent == [][C3_Step]_vars

\* C7: after a successful load a section still has the string table it was
\* given and neither the DT_STRTAB group nor map was used; a segment has a
\* table built in the load at map(p, s), of size s, p the address of the one
\* DT_STRTAB entry and s the value of the DT_STRSZ entry (None without one).
C7_StringTable ==
    LoadedOk =>
        IF kind = "section"
        THEN /\ _stringtable = Some(LinkedStringTable)
             /\ mapCalls = 0
             /\ strtabReads = 0
        ELSE LET P == {i \in 1..FirstNull : FileRecords[i].d_tag = "DT_STRTAB"}
                 S == {i \in 1..FirstNull : FileRecords[i].d_tag = "DT_STRSZ"}
                 p == FileRecords[CHOOSE i \in P : TRUE].d_ptr
                 s == IF S = {} THEN None
                      ELSE Some(FileRecords[CHOOSE i \in S : TRUE].d_val)
                 m == Map(segments, p, s)
             IN  /\ Cardinality(P) = 1
                 /\ Cardinality(S) <= 1
                 /\ m.exc = ""
                 /\ _stringtable # None
                 /\ _stringtable[1].origin = "bootstrap"
                 /\ _stringtable[1]._position = m.value
                 /\ _stringtable[1]._size = s
                 /\ mapCalls = 1

C7_Witness ==
    /\ LoadedOk
    /\ kind = "segment"
    /\ _stringtable # None
    /\ _stringtable[1]._size = Some(1)
    /\ _stringtable[1]._position = 6

\* C8: an operation returns normally only from a table whose entries end
\* with DT_NULL and whose string table is present.
C8_NoPartialResult ==
    (call.op # "" /\ result.exc = "") =>
        /\ _entries # None
        /\ Len(_entries[1]) >= 1
        /\ IsNull(_entries[1][Len(_entries[1])])
        /\ _stringtable # None

\* C10: the scan decodes at position + n * width for n = 0, 1, 2, ... and
\* ends either with the first DT_NULL record, appended and the last one
\* decoded, or with the decode error of running off the stream, which the
\* caller gets.
C10_Reads ==
    loadExc # "unloaded" =>
        /\ Len(reads) >= 1
        /\ \A i \in 1..Len(reads) : reads[i] = _offset + (i - 1) * _tagsize
        /\ \A i \in 1..(Len(reads) - 1) :
               reads[i] \in DOMAIN stream /\ ~IsNull(stream[reads[i]])
        /\ IF reads[Len(reads)] \in DOMAIN stream
           THEN /\ IsNull(stream[reads[Len(reads)]])
                /\ loadExc # "ELFParseError"
                /\ EntriesOf([i \in DOMAIN reads |-> [entry |-> stream[reads[i]]]])
                       = _entries[1]
           ELSE /\ loadExc = "ELFParseError"
                /\ ~HasSentinel
                /\ Len(_entries[1]) = Len(reads) - 1

C10_Raised ==
    (_entries = None /\ loadExc' = "ELFParseError") => result'.exc = "ELFParseError"

C10_ScanTerminates == []C10_Reads /\ [][C10_Raised]_vars

C10_Witness ==
    /\ LoadedOk
    /\ Len(reads) = 2
    /\ Cardinality(DOMAIN stream) = 3
    /\ _offset = 4

(***************************************************************************)
(* DynamicTag built directly by a caller (SpecTag).                        *)
(***************************************************************************)
ViewTags == _HANDLED_TAGS \cup {"DT_NULL", "DT_HASH", "DT_STRTAB"}

\* What a caller may pass as entry: decoded records, and '' as the test does.
ViewEntries ==
    {Elf_Dyn(t, v) : t \in ViewTags, v \in 0..MaxOffset} \cup {[raw |-> ""]}

ViewStringTables ==
    {None, Some(LinkedStringTable), Some(StringTable(6, None)),
     Some(StringTable(6, Some(1)))}

Unused ==
    /\ stream = <<>> /\ kind = "" /\ _offset = 0 /\ _tagsize = 0
    /\ _entries = None /\ _entry_type_map = None /\ _stringtable = None
    /\ reads = <<>> /\ scans = 0 /\ mapCalls = 0 /\ strtabReads = 0
    /\ loadExc = "unloaded"

UnusedKept ==
    UNCHANGED <<stream, kind, _offset, _tagsize, _entries, _entry_type_map,
                _stringtable, reads, scans, mapCalls, strtabReads, loadExc>>

InitTag ==
    /\ Unused
    /\ segments = <<>>
    /\ call = NoCall /\ result = NoResult /\ lookups = <<>> /\ dt = None
    /\ pc = <<>> /\ tn = <<>> /\ top = <<>> /\ tres = <<>>

\* dt = DynamicTag(entry, stringtable)
NewDynamicTag(entry, stringtable) ==
    LET t == DynamicTag(entry, stringtable)
    IN  /\ call' = [op |-> "DynamicTag", arg |-> <<entry, stringtable>>]
        /\ result' = [exc |-> t.exc, inspected |-> t.inspected]
        /\ lookups' = t.lookups
        /\ dt' = IF t.exc = "" THEN Some(t.view) ELSE None
        /\ UnusedKept
        /\ UNCHANGED <<segments, pc, tn, top, tres>>

\* dt[name]
ViewGetItem(name) ==
    /\ dt # None
    /\ call' = [op |-> "__getitem__", arg |-> name]
    /\ result' = [exc |-> "", value |-> GetItem(dt[1], name)]
    /\ lookups' = <<>>
    /\ UnusedKept
    /\ UNCHANGED <<dt, segments, pc, tn, top, tres>>

NextTag ==
    \/ \E entry \in ViewEntries, stringtable \in ViewStringTables :
           NewDynamicTag(entry, stringtable)
    \/ \E name \in {"d_tag", "d_val", "d_ptr"} : ViewGetItem(name)

SpecTag == InitTag /\ [][NextTag]_vars

\* C5: DynamicTag(entry, None) raises ELFError whatever the entry and its
\* tag, before the entry is looked at, and no view comes into existence.
C5_NeedsStringTable ==
    (call.op = "DynamicTag" /\ call.arg[2] = None) =>
        /\ result.exc = "ELFError"
        /\ ~result.inspected
        /\ lookups = <<>>
        /\ dt = None

C5_Witness ==
    /\ call.op = "DynamicTag"
    /\ call.arg[2] = None
    /\ call.arg[1] = Elf_Dyn("DT_HASH", 1)
    /\ result.exc = "ELFError"

ExpectedAttr ==
    [t \in _HANDLED_TAGS |->
        CASE t = "DT_NEEDED" -> "needed"
          [] t = "DT_RPATH" -> "rpath"
          [] t = "DT_RUNPATH" -> "runpath"
          [] t = "DT_SONAME" -> "soname"
          [] t = "DT_SUNW_FILTER" -> "sunw_filter"]

\* C6: built with a string table, a view over a DT_NEEDED, DT_RPATH,
\* DT_RUNPATH, DT_SONAME or DT_SUNW_FILTER entry looks up one string, at the
\* entry's value, and holds it under needed, rpath, runpath, soname or
\* sunw_filter; over any other tag it looks up nothing and holds no such
\* attribute; view[field] is the entry's field either way.
C6_View ==
    /\ (call.op = "DynamicTag" /\ call.arg[2] # None
            /\ "d_tag" \in DOMAIN call.arg[1]) =>
        LET entry == call.arg[1]
            st == call.arg[2][1]
        IN  /\ result.exc = ""
            /\ dt # None
            /\ dt[1].entry = entry
            /\ \A f \in {"d_tag", "d_val", "d_ptr"} : GetItem(dt[1], f) = entry[f]
            /\ IF entry.d_tag \in {"DT_NEEDED", "DT_RPATH", "DT_RUNPATH",
                                   "DT_SONAME", "DT_SUNW_FILTER"}
               THEN /\ lookups = <<entry.d_val>>
                    /\ DOMAIN dt[1].attrs = {ExpectedAttr[entry.d_tag]}
                    /\ dt[1].attrs[ExpectedAttr[entry.d_tag]] =
                           get_string(st, entry.d_val)
               ELSE /\ lookups = <<>>
                    /\ DOMAIN dt[1].attrs = {}
    /\ call.op = "__getitem__" =>
           /\ result = [exc |-> "", value |-> dt[1].entry[call.arg]]
           /\ lookups = <<>>

C6_Witness ==
    /\ call.op = "DynamicTag"
    /\ call.arg[1] = Elf_Dyn("DT_SUNW_FILTER", 2)
    /\ dt # None
    /\ DOMAIN dt[1].attrs = {"sunw_filter"}
    /\ lookups = <<2>>

(***************************************************************************)
(* ELFFile.map called directly (SpecMap).                                  *)
(***************************************************************************)
\* The segments of MockELF in TestMap.
TestSegments ==
    << [p_vaddr |-> 66048, p_filesz |-> 512, p_offset |-> 256],
       [p_vaddr |-> 65792, p_filesz |-> 256, p_offset |-> 1024] >>

\* The calls TestMap makes: <<address, length or None, offset or None>>.
TestCalls ==
    { <<65792, None, Some(1024)>>, <<65824, None, Some(1056)>>,
      <<66047, None, Some(1279)>>, <<66048, None, Some(256)>>,
      <<65791, None, None>>, <<66560, None, None>>,
      <<65792, Some(256), Some(1024)>>, <<65792, Some(4), Some(1024)>>,
      <<65824, Some(4), Some(1056)>>, <<66044, Some(4), Some(1276)>>,
      <<66048, Some(4), Some(256)>>, <<65792, Some(512), None>>,
      <<65536, Some(2048), None>>, <<65788, Some(4), None>>,
      <<65790, Some(4), None>>, <<66046, Some(4), None>>,
      <<66558, Some(4), None>>, <<66560, Some(4), None>> }

SmallRegions ==
    {[p_vaddr |-> v, p_filesz |-> f, p_offset |-> o] :
        v \in 0..2, f \in 1..2, o \in {0, 4}}

InitMap ==
    /\ Unused
    /\ segments \in SeqsUpTo(SmallRegions, MaxRegions) \cup {TestSegments}
    /\ call = NoCall /\ result = NoResult /\ lookups = <<>> /\ dt = None
    /\ pc = <<>> /\ tn = <<>> /\ top = <<>> /\ tres = <<>>

\* elf.map(address) and elf.map(address, length)
MapCall(address, optLength) ==
    /\ call' = [op |-> "map", arg |-> <<address, optLength>>]
    /\ result' = Map(segments, address, optLength)
    /\ UnusedKept
    /\ UNCHANGED <<segments, lookups, dt, pc, tn, top, tres>>

\* A call of TestMap, on the segments of its MockELF.
TestMapCall ==
    /\ segments = TestSegments
    /\ \E c \in TestCalls : MapCall(c[1], c[2])

NextMap ==
    \/ \E address \in 0..MaxAddr, length \in 0..MaxAddr :
           MapCall(address, Some(length))
    \/ \E address \in 0..MaxAddr : MapCall(address, None)
    \/ TestMapCall

SpecMap == InitMap /\ [][NextMap]_vars

\* The region test of the claim, written out.
Fits(seg, address, length) ==
    /\ seg.p_vaddr <= address
    /\ length > 0 => address + length <= seg.p_vaddr + seg.p_filesz
    /\ length = 0 => address < seg.p_vaddr + seg.p_filesz

\* C4: map(address, length) returns offset + (address - vaddr) of the first
\* region, in the order supplied, that holds the address and the length (the
\* region's end included for a length > 0, excluded for length 0), raises
\* LookupError exactly when there is none, and changes nothing.
C4_Map ==
    call.op = "map" =>
        LET address == call.arg[1]
            length == IF call.arg[2] = None THEN 0 ELSE call.arg[2][1]
            M == {i \in 1..Len(segments) : Fits(segments[i], address, length)}
            first == CHOOSE i \in M : \A j \in M : i <= j
        IN  /\ M = {} <=> result.exc = "LookupError"
            /\ M # {} =>
                   result = [exc |-> "",
                             value |-> segments[first].p_offset
                                           + (address - segments[first].p_vaddr)]
            /\ segments = TestSegments =>
                   \A c \in TestCalls :
                       call.arg = <<c[1], c[2]>> =>
                           IF c[3] = None THEN result.exc = "LookupError"
                           ELSE result = [exc |-> "", value |-> c[3][1]]

C4_Witness ==
    /\ call = [op |-> "map", arg |-> <<65792, Some(256)>>]
    /\ segments = TestSegments
    /\ result = [exc |-> "", value |-> 1024]

(***************************************************************************)
(* Two threads making their first access to one table (SpecConc).  Each    *)
(* step is one statement of _load_entries; decoding a record and the       *)
(* return statement of the operation are taken as single steps.            *)
(***************************************************************************)
Threads == {1, 2}

ConcRecords ==
    {Elf_Dyn("DT_NULL", 0), Elf_Dyn("DT_NEEDED", 1), Elf_Dyn("DT_STRTAB", 2)}

ConcOps == {[op |-> "num_tags", arg |-> None], [op |-> "get_tag", arg |-> Some(0)]}

InitConc ==
    /\ \E recs \in SeqsUpTo(ConcRecords, MaxConcRecords),
          k \in {"section", "segment"} :
            InitTable(recs, [position |-> 0, tagsize |-> 8], k)
    /\ dt = None
    /\ pc = [t \in Threads |-> "check"]
    /\ tn = [t \in Threads |-> 0]
    /\ top \in [Threads -> ConcOps]
    /\ tres = [t \in Threads |-> NoResult]

ConcKept == UNCHANGED <<stream, kind, _offset, _tagsize, segments, call,
                        result, lookups, dt, top, loadExc>>

\* AfterCheck without the early return: every call loads again.
AfterCheckAlwaysLoad(entries) == "init"

\* Lines 99-100: where the thread goes from the 'already loaded' test.
AfterCheck(entries) == IF entries # None THEN "ret" ELSE "init"

\* if self._entries is not None: return
TCheck(t) ==
    /\ pc[t] = "check"
    /\ pc' = [pc EXCEPT ![t] = AfterCheck(_entries)]
    /\ UNCHANGED <<_entries, _entry_type_map, _stringtable, reads, scans,
                   mapCalls, strtabReads, tn, tres>>
    /\ ConcKept

\* self._entries = list()
TInitEntries(t) ==
    /\ pc[t] = "init"
    /\ _entries' = Some(<<>>)
    /\ scans' = scans + 1
    /\ pc' = [pc EXCEPT ![t] = "initmap"]
    /\ UNCHANGED <<_entry_type_map, _stringtable, reads, mapCalls,
                   strtabReads, tn, tres>>
    /\ ConcKept

\* self._entry_type_map = defaultdict(list), and n = 0
TInitMap(t) ==
    /\ pc[t] = "initmap"
    /\ _entry_type_map' = Some([factory |-> TRUE, d |-> <<>>])
    /\ tn' = [tn EXCEPT ![t] = 0]
    /\ pc' = [pc EXCEPT ![t] = "scan"]
    /\ UNCHANGED <<_entries, _stringtable, reads, scans, mapCalls,
                   strtabReads, tres>>
    /\ ConcKept

\* entry = struct_parse(...); self._entries.append(entry)
TScan(t) ==
    /\ pc[t] = "scan"
    /\ LET offset == _offset + tn[t] * _tagsize
           parsed == struct_parse(stream, offset)
       IN  /\ reads' = Append(reads, offset)
           /\ IF parsed.exc # ""
              THEN /\ tres' = [tres EXCEPT ![t] = [exc |-> parsed.exc]]
                   /\ pc' = [pc EXCEPT ![t] = "raised"]
                   /\ UNCHANGED _entries
              ELSE /\ _entries' = Some(Append(_entries[1], parsed.entry))
                   /\ pc' = [pc EXCEPT ![t] = "group"]
                   /\ UNCHANGED tres
    /\ UNCHANGED <<_entry_type_map, _stringtable, scans, mapCalls,
                   strtabReads, tn>>
    /\ ConcKept

\* self._entry_type_map[entry.d_tag].append(entry); the test for DT_NULL
TGroup(t) ==
    /\ pc[t] = "group"
    /\ LET entry == stream[_offset + tn[t] * _tagsize]
           m == _entry_type_map[1]
       IN  IF ~m.factory /\ entry.d_tag \notin DOMAIN m.d
           THEN /\ tres' = [tres EXCEPT ![t] = [exc |-> "KeyError"]]
                /\ pc' = [pc EXCEPT ![t] = "raised"]
                /\ UNCHANGED <<_entry_type_map, tn>>
           ELSE /\ _entry_type_map' =
                       Some([m EXCEPT !.d = GroupAppend(m.d, entry.d_tag, entry)])
                /\ IF entry.d_tag = "DT_NULL"
                   THEN pc' = [pc EXCEPT ![t] = "fin"] /\ UNCHANGED tn
                   ELSE /\ pc' = [pc EXCEPT ![t] = "scan"]
                        /\ tn' = [tn EXCEPT ![t] = tn[t] + 1]
                /\ UNCHANGED tres
    /\ UNCHANGED <<_entries, _stringtable, reads, scans, mapCalls, strtabReads>>
    /\ ConcKept

\* self._entry_type_map.default_factory = None
TFinish(t) ==
    /\ pc[t] = "fin"
    /\ _entry_type_map' = Some([_entry_type_map[1] EXCEPT !.factory = FALSE])
    /\ pc' = [pc EXCEPT ![t] = "strtab"]
    /\ UNCHANGED <<_entries, _stringtable, reads, scans, mapCalls,
                   strtabReads, tn, tres>>
    /\ ConcKept

\* Lines 116-126: return if a string table is there, else build one.
TStringTable(t) ==
    /\ pc[t] = "strtab"
    /\ IF _stringtable # None
       THEN /\ pc' = [pc EXCEPT ![t] = "ret"]
            /\ UNCHANGED <<_stringtable, mapCalls, strtabReads, tres>>
       ELSE LET b == Bootstrap(_entry_type_map[1].d)
            IN  /\ _stringtable' = b.st
                /\ mapCalls' = mapCalls + b.mapped
                /\ strtabReads' = strtabReads + 1
                /\ IF b.exc # ""
                   THEN /\ tres' = [tres EXCEPT ![t] = [exc |-> b.exc]]
                        /\ pc' = [pc EXCEPT ![t] = "raised"]
                   ELSE /\ pc' = [pc EXCEPT ![t] = "ret"]
                        /\ UNCHANGED tres
    /\ UNCHANGED <<_entries, _entry_type_map, reads, scans, tn>>
    /\ ConcKept

\* The table as the scan of the whole file and the string table make it.
Complete ==
    /\ _entries # None
    /\ Len(_entries[1]) >= 1
    /\ IsNull(_entries[1][Len(_entries[1])])
    /\ _stringtable # None

\* return len(self._entries) / return DynamicTag(self._entries[n], ...)
TReturn(t) ==
    /\ pc[t] = "ret"
    /\ LET L == [exc |-> "", entries |-> _entries, st |-> _stringtable]
           r == IF top[t].op = "num_tags" THEN NumTagsResult(L)
                ELSE GetTagResult(L, top[t].arg[1])
       IN  /\ tres' = [tres EXCEPT ![t] =
                          IF r.exc # "" THEN [exc |-> r.exc, partial |-> ~Complete]
                          ELSE [exc |-> "", value |-> r.value,
                                partial |-> ~Complete]]
           /\ pc' = [pc EXCEPT ![t] = IF r.exc # "" THEN "raised" ELSE "done"]
    /\ UNCHANGED <<_entries, _entry_type_map, _stringtable, reads, scans,
                   mapCalls, strtabReads, tn>>
    /\ ConcKept

NextConc ==
    \E t \in Threads :
        \/ TCheck(t)
        \/ TInitEntries(t)
        \/ TInitMap(t)
        \/ TScan(t)
        \/ TGroup(t)
        \/ TFinish(t)
        \/ TStringTable(t)
        \/ TReturn(t)

SpecConc == InitConc /\ [][NextConc]_vars

\* Between its own 'already loaded' test and the end of its load.
InLoad(u) == pc[u] \in {"init", "initmap", "scan", "group", "fin", "strtab"}

\* C9: nothing makes the 'already loaded' test and the load one step: a
\* thread that makes the test while the other thread is inside the load
\* goes on at once, to a second scan when the entries are still None and
\* to its result, computed from what is loaded so far, when they are not.
C9_Step ==
    \A t \in Threads :
        (pc[t] = "check" /\ pc'[t] # "check" /\ \E u \in Threads \ {t} : InLoad(u)) =>
            \/ _entries = None /\ pc'[t] = "init"
            \/ _entries # None /\ pc'[t] = "ret"

C9_CheckIsNotAtomic == [][C9_Step]_vars

\* One thread has returned normally from a table the other had not finished.
C9_Witness ==
    \E t \in Threads :
        /\ pc[t] = "done"
        /\ tres[t].exc = ""
        /\ tres[t].partial
        /\ top[t].op = "num_tags"
        /\ HasSentinel
        /\ tres[t].value < FirstNull
        /\ scans = 1

\* The records have been scanned twice.
C9_DoubleScan == scans = 2 /\ \A t \in Threads : pc[t] = "done"

====
